---- MODULE Spec2Model ----
(***************************************************************************)
(* Vardr certificate manager (src/fastapi/certificate_manager.py).         *)
(*                                                                         *)
(* A supervisor process that merges the operator's *.crt files into a      *)
(* trust bundle, remembers a digest of the certificate directory, finds    *)
(* the FastAPI entry file, spawns uvicorn and exits with its status.       *)
(*                                                                         *)
(* The state is the part of the filesystem the program touches plus, per   *)
(* supervisor process, its position in run() and its local values.         *)
(***************************************************************************)
EXTENDS Integers, Sequences, FiniteSets, TLC

(***************************************************************************)
(* Bounds of the model.                                                    *)
(***************************************************************************)
\* number of file names *.crt that may appear in /certs
MaxCerts == 2
\* number of files in /app besides the five conventional names
MaxOther == 2

(***************************************************************************)
(* Values.                                                                 *)
(***************************************************************************)
\* Supervisor processes.  Spec runs one of them at a time, as a container
\* does.
Inst == {1, 2}

\* A content unit of a certificate file: "c" is a well-formed PEM
\* certificate block, "x" is any other text.
Bytes == {"c", "x"}

\* The contents a certificate file is given: empty, malformed, a
\* certificate, and a certificate followed by other text.
Contents == {<<>>, <<"x">>, <<"c">>, <<"c", "x">>}

\* File names of /certs/*.crt; the order of the numbers is the order of the
\* names under sorted().
CertNames == 1..MaxCerts

NoFile == [present |-> FALSE, readable |-> FALSE, data |-> <<>>]

\* The states of one file of /certs in the runs.
CertFileStates ==
    {NoFile} \cup {[present |-> TRUE, readable |-> TRUE, data |-> d] : d \in Contents}

NoDir == [exists |-> FALSE, files |-> [n \in CertNames |-> NoFile]]

CertsDirStates ==
    {NoDir} \cup {[exists |-> TRUE, files |-> f] : f \in [CertNames -> CertFileStates]}

\* A file that holds one value (the digest record, the bundle).
Missing == [exists |-> FALSE, data |-> <<>>]

File(d) == [exists |-> TRUE, data |-> d]

\* certifi.where(): the content of the system trust-anchor bundle, one unit.
SystemBundle == <<"SYS">>

\* The newline the builder puts before each appended certificate.
Newline == <<"nl">>

\* The value of an Optional[str] that is None.
None == "<None>"

\* self.custom_ca_bundle
custom_ca_bundle == "/app/custom_ca_bundle.pem"

\* The variables of a process environment the model follows: the five that
\* start_fastapi_application assigns and two it does not.
TrustVars == {"SSL_CERT_FILE", "REQUESTS_CA_BUNDLE", "CURL_CA_BUNDLE"}

FlagVars == {"PYTHONUNBUFFERED", "PYTHONDONTWRITEBYTECODE"}

EnvNames == TrustVars \cup FlagVars \cup {"PATH", "PORT"}

\* A variable that is not in the dictionary.
Unset == "<unset>"

\* What a variable holds when the supervisor is started.
EnvValues == {Unset, "1", "/etc/ssl/cert.pem"}

EnvStates == [EnvNames -> EnvValues]

\* The dictionary env before it is assigned.
NoEnv == [n \in EnvNames |-> Unset]

\* The environment the container of the runs gives the supervisor.
ContainerEnv == [NoEnv EXCEPT !["PATH"] = "1", !["SSL_CERT_FILE"] = "/etc/ssl/cert.pem"]

\* No digest computed yet.
NoDigest == <<>>

VARIABLES
    certsDir,     \* /certs
    hashFile,     \* /app/certs.hash
    bundleFile,   \* /app/custom_ca_bundle.pem
    appDir,       \* /app, the files the locator looks at
    pc,           \* per process: where it is in run()
    path,         \* per process: "none", "skip" or "rebuild"
    local,        \* per process: the local variables of the import
    app_file,     \* per process: the result of _find_application_file
    child,        \* per process: its child process
    exit_code,    \* per process: the status it exited with, -1 while it runs
    log,          \* per process: what it has logged in this run
    hist,         \* per process: what it has done in this run
    prev,         \* the run before this one (a history of the last exit)
    environ,      \* per process: os.environ
    env,          \* per process: the dictionary given to Popen as env
    listing,      \* per process: the order glob last enumerated /certs/*.crt in
    digest        \* per process: what calculate_certificates_hash last returned

fs == <<certsDir, hashFile, bundleFile, appDir>>

proc == <<pc, path, local, app_file, child, exit_code, log, hist>>

aux == <<environ, env, listing, digest>>

vars == <<certsDir, hashFile, bundleFile, appDir, pc, path, local, app_file,
          child, exit_code, log, hist, prev, environ, env, listing, digest>>

(***************************************************************************)
(* Pure functions of the program.                                          *)
(***************************************************************************)
\* sorted(...): the names of S in ascending order.
RECURSIVE Sorted(_)
Sorted(S) ==
    IF S = {} THEN <<>>
    ELSE LET m == CHOOSE x \in S : \A y \in S : x <= y
         IN  <<m>> \o Sorted(S \ {m})

\* certs_dir.glob("*.crt")
Glob(dir) == {n \in CertNames : dir.files[n].present}

\* The orders in which glob can enumerate the files of the directory.
GlobOrders(dir) ==
    {e \in [1..Cardinality(Glob(dir)) -> Glob(dir)] :
        \A j, k \in DOMAIN e : j # k => e[j] # e[k]}

\* sorted() left out: the list as glob enumerated it.
unsorted(list) == list

\* x put at its place in an ascending list.
RECURSIVE Insert(_, _)
Insert(x, list) ==
    IF list = <<>> THEN <<x>>
    ELSE IF x <= Head(list) THEN <<x>> \o list
    ELSE <<Head(list)>> \o Insert(x, Tail(list))

\* sorted(list): the elements of the list in ascending order.
RECURSIVE sorted(_)
sorted(list) == IF list = <<>> THEN <<>> ELSE Insert(Head(list), sorted(Tail(list)))

\* hashlib.sha256(...).hexdigest(), taken to be injective: the digest of a
\* byte string is the byte string under a tag.
Sha256(bytes) == <<"sha256">> \o bytes

NoCertsHash == <<"no-certs">>

\* The loop of calculate_certificates_hash: the bytes fed to the hash, a
\* file that cannot be read is skipped with a warning.
RECURSIVE HashInput(_, _)
HashInput(dir, names) ==
    IF names = <<>> THEN <<>>
    ELSE LET f == dir.files[Head(names)]
         IN  (IF f.readable THEN f.data ELSE <<>>) \o HashInput(dir, Tail(names))

\* calculate_certificates_hash() when glob enumerates the files in the
\* order `list`.
calculate_certificates_hash_of(dir, list) ==
    IF ~dir.exists THEN NoCertsHash
    ELSE Sha256(HashInput(dir, sorted(list)))

\* The value in the steps of a run: sorted() of any enumeration is the
\* ascending list of the names, and C11_DigestDeterminism checks that this
\* is the value for every enumeration.
calculate_certificates_hash(dir) ==
    IF ~dir.exists THEN NoCertsHash
    ELSE Sha256(HashInput(dir, Sorted(Glob(dir))))

\* env = os.environ.copy() and the assignments that follow it: the two
\* dictionaries afterwards.  d[k] = v on a dictionary is EXCEPT.
BuildEnvNoCopy(e) ==
    LET d == [e EXCEPT !["SSL_CERT_FILE"] = custom_ca_bundle,
                       !["REQUESTS_CA_BUNDLE"] = custom_ca_bundle,
                       !["CURL_CA_BUNDLE"] = custom_ca_bundle,
                       !["PYTHONUNBUFFERED"] = "1",
                       !["PYTHONDONTWRITEBYTECODE"] = "1"]
    IN  [environ |-> d, env |-> d]

BuildEnv(e) ==
    [environ |-> e,
     env |-> [e EXCEPT !["SSL_CERT_FILE"] = custom_ca_bundle,
                       !["REQUESTS_CA_BUNDLE"] = custom_ca_bundle,
                       !["CURL_CA_BUNDLE"] = custom_ca_bundle,
                       !["PYTHONUNBUFFERED"] = "1",
                       !["PYTHONDONTWRITEBYTECODE"] = "1"]]

\* validate_certificate: ssl loads the text when it holds a PEM certificate
\* block; an unreadable file, an empty file and plain text raise, which the
\* function turns into False.
validate_certificate(f) ==
    /\ f.readable
    /\ \E k \in 1..Len(f.data) : f.data[k] = "c"

\* The loop of create_custom_ca_bundle over the sorted certificate files:
\* custom_bundle_content after the files `names`, starting from `content`.
RECURSIVE AppendCertificates(_, _, _)
AppendCertificates(content, dir, names) ==
    IF names = <<>> THEN content
    ELSE LET f == dir.files[Head(names)]
         IN  AppendCertificates(
                 IF validate_certificate(f) THEN content \o Newline \o f.data
                 ELSE content,
                 dir, Tail(names))

\* The counting loop of import_certificates.
SuccessCount(dir) == Cardinality({n \in Glob(dir) : validate_certificate(dir.files[n])})

FailureCount(dir) == Cardinality({n \in Glob(dir) : ~validate_certificate(dir.files[n])})

(***************************************************************************)
(* The application locator.                                                *)
(***************************************************************************)
\* possible_files, in the order the locator tries them.
possible_files == <<"main.py", "app.py", "application.py", "api.py", "server.py">>

\* Other names that may be in /app; the first MaxOther of them are used.
OtherFiles == <<"svc1.py", "notes.txt", "svc2.py", "data.txt">>

OtherNames == {OtherFiles[k] : k \in 1..MaxOther}

PriorityNames == {possible_files[k] : k \in 1..Len(possible_files)}

AppNames == PriorityNames \cup OtherNames

\* The names app_dir.glob("*.py") can match.
PyNames == PriorityNames \cup {"svc1.py", "svc2.py"}

\* The two phrases the locator searches a file's text for.
Markers == {"FastAPI", "from fastapi"}

\* A file of /app: `text` is the set of marker phrases its content contains.
NoAppFile == [present |-> FALSE, readable |-> FALSE, text |-> {}]

PlainFile == [present |-> TRUE, readable |-> TRUE, text |-> {}]

AppFile(r, t) == [present |-> TRUE, readable |-> r, text |-> t]

EmptyAppDir == [n \in AppNames |-> NoAppFile]

\* _find_application_file with the two searches in the other order: the
\* files that name the framework first, the conventional names after.
find_application_file_scan_first(dir) ==
    LET hits == {n \in AppNames \cap PyNames :
                     /\ dir[n].present
                     /\ dir[n].readable
                     /\ dir[n].text \cap Markers # {}}
    IN  IF hits # {} THEN hits
        ELSE IF \E k \in 1..Len(possible_files) : dir[possible_files[k]].present
        THEN LET k == CHOOSE j \in 1..Len(possible_files) :
                          /\ dir[possible_files[j]].present
                          /\ \A h \in 1..(j - 1) : ~dir[possible_files[h]].present
             IN  {possible_files[k]}
        ELSE {None}

\* _find_application_file: the set of values it can return, one for each
\* order in which glob can enumerate the directory.
find_application_file(dir) ==
    IF \E k \in 1..Len(possible_files) : dir[possible_files[k]].present
    THEN LET k == CHOOSE j \in 1..Len(possible_files) :
                      /\ dir[possible_files[j]].present
                      /\ \A h \in 1..(j - 1) : ~dir[possible_files[h]].present
         IN  {possible_files[k]}
    ELSE LET hits == {n \in AppNames \cap PyNames :
                          /\ dir[n].present
                          /\ dir[n].readable
                          /\ dir[n].text \cap Markers # {}}
         IN  IF hits = {} THEN {None} ELSE hits

(***************************************************************************)
(* Exceptions and exit statuses.                                           *)
(***************************************************************************)
\* Whether a clause `except Exception` catches an exception of this kind;
\* sys.exit raises SystemExit, which is not an Exception.
CaughtByExceptException(kind) == kind = "Exception"

\* The status the operating system records for sys.exit(n): n modulo 256.
ExitStatus(n) == n % 256

\* The status of a process that leaves through sys.exit(n) inside the try
\* blocks of start_fastapi_application and run.
SysExit(n) == IF CaughtByExceptException("SystemExit") THEN 1 ELSE ExitStatus(n)

\* Exit codes and signals a child is let end with.
ExitCodes == {0, 1, 137}

Signals == {9}

NoChild == [state |-> "none", n |-> 0]

Running == [state |-> "running", n |-> 0]

ChildOutcomes ==
    {[state |-> "exited", n |-> c] : c \in ExitCodes}
        \cup {[state |-> "signaled", n |-> s] : s \in Signals}

\* Popen.wait(): the exit code, or minus the signal number.
Returncode(c) == IF c.state = "signaled" THEN 0 - c.n ELSE c.n

(***************************************************************************)
(* The initial state: a new container, no digest record and no bundle yet. *)
(***************************************************************************)
NoLocal == [content |-> <<>>, bound |-> FALSE, success |-> 0, failure |-> 0, total |-> 0]

NoLog == [error |-> FALSE, warn |-> FALSE, summary |-> <<>>]

NoHist ==
    [had_hash |-> FALSE, validated |-> 0, built |-> 0, bundle_written |-> FALSE,
     fallback |-> "none", hash_written |-> FALSE, faulted |-> FALSE, spawned |-> FALSE,
     built_from |-> NoDir]

NoPrev ==
    [ran |-> FALSE, had_hash |-> FALSE, path |-> "none", validated |-> 0, built |-> 0,
     faulted |-> FALSE, launched |-> FALSE, bundle |-> Missing, certs |-> NoDir]

\* The /app directories of the runs: empty, a conventional entry file, or
\* only a file that names the framework.
AppDirChoices ==
    {EmptyAppDir,
     [EmptyAppDir EXCEPT !["main.py"] = PlainFile],
     [EmptyAppDir EXCEPT !["svc1.py"] = AppFile(TRUE, {"FastAPI"})]}

InitProc ==
    /\ pc = [i \in Inst |-> "idle"]
    /\ path = [i \in Inst |-> "none"]
    /\ local = [i \in Inst |-> NoLocal]
    /\ app_file = [i \in Inst |-> None]
    /\ child = [i \in Inst |-> NoChild]
    /\ exit_code = [i \in Inst |-> -1]
    /\ log = [i \in Inst |-> NoLog]
    /\ hist = [i \in Inst |-> NoHist]
    /\ prev = NoPrev
    /\ env = [i \in Inst |-> NoEnv]
    /\ listing = [i \in Inst |-> <<>>]
    /\ digest = [i \in Inst |-> NoDigest]

Init ==
    /\ certsDir \in CertsDirStates
    /\ hashFile = Missing
    /\ bundleFile = Missing
    /\ appDir \in AppDirChoices
    /\ environ = [i \in Inst |-> ContainerEnv]
    /\ InitProc

(***************************************************************************)
(* run(), one action per step.                                             *)
(***************************************************************************)
\* StartRun under a single-instance lock: run() is entered only while no
\* other supervisor is between its start and its exit.
StartRunLocked(i) ==
    /\ pc[i] = "idle"
    /\ \A j \in Inst \ {i} : pc[j] \in {"idle", "exited"}
    /\ pc' = [pc EXCEPT ![i] = "check"]
    /\ hist' = [hist EXCEPT ![i].had_hash = hashFile.exists]
    /\ UNCHANGED <<fs, path, local, app_file, child, exit_code, log, prev, aux>>

\* run() is entered.
StartRun(i) ==
    /\ pc[i] = "idle"
    /\ pc' = [pc EXCEPT ![i] = "check"]
    /\ hist' = [hist EXCEPT ![i].had_hash = hashFile.exists]
    /\ UNCHANGED <<fs, path, local, app_file, child, exit_code, log, prev, aux>>

\* str.strip() on the text of the digest record.
RECURSIVE LStrip(_)
LStrip(s) == IF s # <<>> /\ Head(s) \in {"nl", " "} THEN LStrip(Tail(s)) ELSE s

RECURSIVE RStrip(_)
RStrip(s) ==
    IF s # <<>> /\ s[Len(s)] \in {"nl", " "} THEN RStrip(SubSeq(s, 1, Len(s) - 1)) ELSE s

Strip(s) == RStrip(LStrip(s))

\* certificates_unchanged() when the record can be read.
certificates_unchanged ==
    /\ hashFile.exists
    /\ Strip(hashFile.data) = calculate_certificates_hash(certsDir)

\* CheckDigest with the else of run() lost: the import runs also when the
\* certificates are unchanged.
CheckDigestNoElse(i) ==
    /\ pc[i] = "check"
    /\ \E ok \in BOOLEAN :
          /\ ~ok => hashFile.exists
          /\ LET unchanged == ok /\ certificates_unchanged
             IN  /\ path' = [path EXCEPT ![i] = IF unchanged THEN "skip" ELSE "rebuild"]
                 /\ pc' = [pc EXCEPT ![i] = "import"]
          /\ log' = [log EXCEPT ![i].warn = @ \/ ~ok]
          /\ hist' = [hist EXCEPT ![i].faulted = @ \/ ~ok]
    /\ UNCHANGED <<fs, local, app_file, child, exit_code, prev, aux>>

\* The test of run(): certificates_unchanged(), which is False when the
\* record is missing or reading it raises.
CheckDigest(i) ==
    /\ pc[i] = "check"
    /\ \E ok \in BOOLEAN :
          /\ ~ok => hashFile.exists
          /\ LET unchanged == ok /\ certificates_unchanged
             IN  /\ path' = [path EXCEPT ![i] = IF unchanged THEN "skip" ELSE "rebuild"]
                 /\ pc' = [pc EXCEPT ![i] = IF unchanged THEN "locate" ELSE "import"]
          /\ log' = [log EXCEPT ![i].warn = @ \/ ~ok]
          /\ hist' = [hist EXCEPT ![i].faulted = @ \/ ~ok]
    /\ UNCHANGED <<fs, local, app_file, child, exit_code, prev, aux>>

\* import_certificates() up to the call of create_custom_ca_bundle().
ImportCertificates(i) ==
    /\ pc[i] = "import"
    /\ IF ~certsDir.exists \/ Glob(certsDir) = {}
       THEN /\ pc' = [pc EXCEPT ![i] = "persist"]
            /\ UNCHANGED <<local, hist>>
       ELSE /\ pc' = [pc EXCEPT ![i] = "build"]
            /\ local' = [local EXCEPT ![i].success = SuccessCount(certsDir),
                                      ![i].failure = FailureCount(certsDir),
                                      ![i].total = Cardinality(Glob(certsDir))]
            /\ hist' = [hist EXCEPT ![i].validated = @ + 1]
    /\ UNCHANGED <<fs, path, app_file, child, exit_code, log, prev, aux>>

\* create_custom_ca_bundle(): read the system bundle and append the valid
\* certificates.
BuildBundle(i) ==
    /\ pc[i] = "build"
    /\ \E ok \in BOOLEAN :
          /\ pc' = [pc EXCEPT ![i] = IF ok THEN "open" ELSE "fallback"]
          /\ local' = [local EXCEPT
                 ![i].content =
                     IF ~ok THEN <<>>
                     ELSE IF certsDir.exists
                     THEN AppendCertificates(SystemBundle, certsDir, Sorted(Glob(certsDir)))
                     ELSE SystemBundle,
                 ![i].bound = ok /\ certsDir.exists]
          /\ hist' = [hist EXCEPT ![i].built = @ + 1, ![i].faulted = @ \/ ~ok,
                                  ![i].built_from = IF ok THEN certsDir ELSE @]
    /\ UNCHANGED <<fs, path, app_file, child, exit_code, log, prev, aux>>

\* open(self.custom_ca_bundle, 'w'): the file is created or truncated.
OpenBundle(i) ==
    /\ pc[i] = "open"
    /\ \E ok \in BOOLEAN :
          /\ pc' = [pc EXCEPT ![i] = IF ok THEN "write" ELSE "fallback"]
          /\ bundleFile' = IF ok THEN File(<<>>) ELSE bundleFile
          /\ hist' = [hist EXCEPT ![i].faulted = @ \/ ~ok]
    /\ UNCHANGED <<certsDir, hashFile, appDir, path, local, app_file, child,
                   exit_code, log, prev, aux>>

\* f.write(custom_bundle_content) and the log line after it, which raises
\* NameError when cert_files was never assigned.
WriteBundle(i) ==
    /\ pc[i] = "write"
    /\ \/ /\ bundleFile' = File(local[i].content)
          /\ pc' = [pc EXCEPT ![i] = IF local[i].bound THEN "summary" ELSE "fallback"]
          /\ hist' = [hist EXCEPT ![i].bundle_written = @ \/ local[i].bound]
       \/ /\ \E n \in 0..(Len(local[i].content) - 1) :
                bundleFile' = File(SubSeq(local[i].content, 1, n))
          /\ pc' = [pc EXCEPT ![i] = "fallback"]
          /\ hist' = [hist EXCEPT ![i].faulted = TRUE]
    /\ UNCHANGED <<certsDir, hashFile, appDir, path, local, app_file, child,
                   exit_code, log, prev, aux>>

\* Fallback without the copy: the error is logged and the builder returns.
FallbackNoCopy(i) ==
    /\ pc[i] = "fallback"
    /\ log' = [log EXCEPT ![i].error = TRUE]
    /\ pc' = [pc EXCEPT ![i] = "summary"]
    /\ hist' = [hist EXCEPT ![i].fallback = "copied"]
    /\ UNCHANGED <<fs, path, local, app_file, child, exit_code, prev, aux>>

\* The except clause of create_custom_ca_bundle(): log the error and copy
\* the system bundle over the output.  The copy is not guarded: when it
\* raises (before or after it has opened the output) the exception leaves
\* import_certificates() and reaches the except clause of run().
Fallback(i) ==
    /\ pc[i] = "fallback"
    /\ log' = [log EXCEPT ![i].error = TRUE]
    /\ \/ /\ bundleFile' = File(SystemBundle)
          /\ pc' = [pc EXCEPT ![i] = "summary"]
          /\ hist' = [hist EXCEPT ![i].bundle_written = TRUE, ![i].fallback = "copied"]
       \/ /\ bundleFile' \in {bundleFile, File(<<>>)}
          /\ pc' = [pc EXCEPT ![i] = "except"]
          /\ hist' = [hist EXCEPT ![i].faulted = TRUE, ![i].fallback = "failed"]
    /\ UNCHANGED <<certsDir, hashFile, appDir, path, local, app_file, child,
                   exit_code, prev, aux>>

\* The end of import_certificates(): the summary is logged.
LogSummary(i) ==
    /\ pc[i] = "summary"
    /\ log' = [log EXCEPT ![i].summary =
                  <<[successful_imports |-> local[i].success,
                     failed_imports |-> local[i].failure,
                     total_certificates |-> local[i].total]>>]
    /\ pc' = [pc EXCEPT ![i] = "persist"]
    /\ UNCHANGED <<fs, path, local, app_file, child, exit_code, hist, prev, aux>>

\* save_certificate_hash(): the digest is computed again and written; a
\* failure of the write, before or after the file is truncated, is logged
\* and ignored.
SaveCertificateHash(i) ==
    /\ pc[i] = "persist"
    /\ \/ /\ hashFile' = File(calculate_certificates_hash(certsDir))
          /\ hist' = [hist EXCEPT ![i].hash_written = TRUE]
          /\ UNCHANGED log
       \/ /\ \/ /\ hashFile' = hashFile
                   /\ hist' = [hist EXCEPT ![i].faulted = TRUE]
             \/ /\ hashFile' = File(<<>>)
                   /\ hist' = [hist EXCEPT ![i].hash_written = TRUE, ![i].faulted = TRUE]
          /\ log' = [log EXCEPT ![i].warn = TRUE]
    /\ pc' = [pc EXCEPT ![i] = "locate"]
    /\ UNCHANGED <<certsDir, bundleFile, appDir, path, local, app_file, child,
                   exit_code, prev, aux>>

\* LocateApp without the test of app_file: the launch goes on with None.
LocateAppNoTest(i) ==
    /\ pc[i] = "locate"
    /\ \E f \in find_application_file(appDir) :
          /\ app_file' = [app_file EXCEPT ![i] = f]
          /\ pc' = [pc EXCEPT ![i] = "spawn"]
    /\ environ' = [environ EXCEPT ![i] = BuildEnv(environ[i]).environ]
    /\ env' = [env EXCEPT ![i] = BuildEnv(environ[i]).env]
    /\ UNCHANGED <<fs, path, local, child, exit_code, log, hist, prev, listing, digest>>

\* start_fastapi_application() up to the try block: env is made from a copy
\* of os.environ, the entry file is looked up, and sys.exit(1) is called
\* when there is none.
LocateApp(i) ==
    /\ pc[i] = "locate"
    /\ \E f \in find_application_file(appDir) :
          /\ app_file' = [app_file EXCEPT ![i] = f]
          /\ IF f = None
             THEN /\ log' = [log EXCEPT ![i].error = TRUE]
                  /\ pc' = [pc EXCEPT ![i] = "exited"]
                  /\ exit_code' = [exit_code EXCEPT ![i] = SysExit(1)]
             ELSE /\ pc' = [pc EXCEPT ![i] = "spawn"]
                  /\ UNCHANGED <<log, exit_code>>
    /\ environ' = [environ EXCEPT ![i] = BuildEnv(environ[i]).environ]
    /\ env' = [env EXCEPT ![i] = BuildEnv(environ[i]).env]
    /\ UNCHANGED <<fs, path, local, child, hist, prev, listing, digest>>

\* subprocess.Popen(cmd, env=env): the child starts with the dictionary env
\* as its environment; when Popen raises, the except clause logs the error
\* and calls sys.exit(1).
Spawn(i) ==
    /\ pc[i] = "spawn"
    /\ \/ /\ child' = [child EXCEPT ![i] = Running]
          /\ pc' = [pc EXCEPT ![i] = "wait"]
          /\ hist' = [hist EXCEPT ![i].spawned = TRUE]
          /\ UNCHANGED <<log, exit_code>>
       \/ /\ log' = [log EXCEPT ![i].error = TRUE]
          /\ pc' = [pc EXCEPT ![i] = "exited"]
          /\ exit_code' = [exit_code EXCEPT ![i] = SysExit(1)]
          /\ hist' = [hist EXCEPT ![i].faulted = TRUE]
          /\ UNCHANGED child
    /\ UNCHANGED <<fs, path, local, app_file, prev, aux>>

\* The child ends, by exit or by a signal.
ChildTerminates(i) ==
    /\ child[i] = Running
    /\ \E c \in ChildOutcomes : child' = [child EXCEPT ![i] = c]
    /\ UNCHANGED <<fs, pc, path, local, app_file, exit_code, log, hist, prev, aux>>

\* WaitChild with poll() in place of wait(): the supervisor goes on at once
\* and exits, whether the child has ended or not.
WaitChildNoWait(i) ==
    /\ pc[i] = "wait"
    /\ pc' = [pc EXCEPT ![i] = "exited"]
    /\ exit_code' = [exit_code EXCEPT ![i] = SysExit(Returncode(child[i]))]
    /\ UNCHANGED <<fs, path, local, app_file, child, log, hist, prev, aux>>

\* exit_code = process.wait(); sys.exit(exit_code)
WaitChild(i) ==
    /\ pc[i] = "wait"
    /\ child[i] \in ChildOutcomes
    /\ pc' = [pc EXCEPT ![i] = "exited"]
    /\ exit_code' = [exit_code EXCEPT ![i] = SysExit(Returncode(child[i]))]
    /\ UNCHANGED <<fs, path, local, app_file, child, log, hist, prev, aux>>

\* RunExcept as a retry: the error is logged and the run starts over.
RunExceptRetry(i) ==
    /\ pc[i] = "except"
    /\ log' = [log EXCEPT ![i].error = TRUE]
    /\ pc' = [pc EXCEPT ![i] = "check"]
    /\ UNCHANGED <<fs, path, local, app_file, child, exit_code, hist, prev, aux>>

\* RunExcept without sys.exit(1): run() returns and the process ends with 0.
RunExceptNoExit(i) ==
    /\ pc[i] = "except"
    /\ log' = [log EXCEPT ![i].error = TRUE]
    /\ pc' = [pc EXCEPT ![i] = "exited"]
    /\ exit_code' = [exit_code EXCEPT ![i] = ExitStatus(0)]
    /\ UNCHANGED <<fs, path, local, app_file, child, hist, prev, aux>>

\* The except clause of run(): log the error, sys.exit(1).
RunExcept(i) ==
    /\ pc[i] = "except"
    /\ log' = [log EXCEPT ![i].error = TRUE]
    /\ pc' = [pc EXCEPT ![i] = "exited"]
    /\ exit_code' = [exit_code EXCEPT ![i] = ExitStatus(1)]
    /\ UNCHANGED <<fs, path, local, app_file, child, hist, prev, aux>>

\* The process is gone: what a new process starts from.
ResetProcess(i) ==
    /\ pc[i] = "exited"
    /\ pc' = [pc EXCEPT ![i] = "idle"]
    /\ path' = [path EXCEPT ![i] = "none"]
    /\ local' = [local EXCEPT ![i] = NoLocal]
    /\ app_file' = [app_file EXCEPT ![i] = None]
    /\ child' = [child EXCEPT ![i] = NoChild]
    /\ exit_code' = [exit_code EXCEPT ![i] = -1]
    /\ log' = [log EXCEPT ![i] = NoLog]
    /\ hist' = [hist EXCEPT ![i] = NoHist]
    /\ env' = [env EXCEPT ![i] = NoEnv]
    /\ UNCHANGED <<fs, environ, listing, digest>>

\* The container is started again: a new process, the files as they are.
Restart(i) ==
    /\ ResetProcess(i)
    /\ UNCHANGED prev

\* The same, once, keeping in prev what the run that ended did.
RestartOnce(i) ==
    /\ ~prev.ran
    /\ ResetProcess(i)
    /\ prev' = [ran |-> TRUE, had_hash |-> hist[i].had_hash, path |-> path[i],
                validated |-> hist[i].validated, built |-> hist[i].built,
                faulted |-> hist[i].faulted, launched |-> hist[i].spawned,
                bundle |-> bundleFile, certs |-> certsDir]

\* The operator changes /certs: the directory is removed or created, or one
\* file is written or removed.
EditCerts ==
    /\ \/ certsDir.exists /\ certsDir' = NoDir
       \/ ~certsDir.exists /\ certsDir' = [NoDir EXCEPT !.exists = TRUE]
       \/ /\ certsDir.exists
          /\ \E n \in CertNames : \E f \in CertFileStates \ {certsDir.files[n]} :
                certsDir' = [certsDir EXCEPT !.files[n] = f]
    /\ UNCHANGED <<hashFile, bundleFile, appDir, proc, prev, aux>>

\* The same between two runs, while no supervisor is running.
ChangeCerts ==
    /\ \A i \in Inst : pc[i] = "idle"
    /\ EditCerts

\* The steps of one run.
Step(i) ==
    \/ StartRun(i)
    \/ CheckDigest(i)
    \/ ImportCertificates(i)
    \/ BuildBundle(i)
    \/ OpenBundle(i)
    \/ WriteBundle(i)
    \/ Fallback(i)
    \/ LogSummary(i)
    \/ SaveCertificateHash(i)
    \/ LocateApp(i)
    \/ Spawn(i)
    \/ ChildTerminates(i)
    \/ WaitChild(i)
    \/ RunExcept(i)

\* The steps of a run up to the launch of the child.
Startup(i) ==
    \/ StartRun(i)
    \/ CheckDigest(i)
    \/ ImportCertificates(i)
    \/ BuildBundle(i)
    \/ OpenBundle(i)
    \/ WriteBundle(i)
    \/ Fallback(i)
    \/ LogSummary(i)
    \/ SaveCertificateHash(i)
    \/ LocateApp(i)
    \/ Spawn(i)
    \/ RunExcept(i)

\* The steps the supervisor itself takes: all of them but the end of the
\* child.
Supervisor(i) == Startup(i) \/ WaitChild(i)

\* One supervisor, started again after each exit, the operator changing
\* /certs between the runs.
Next == Step(1) \/ Restart(1) \/ ChangeCerts

Spec == Init /\ [][Next]_vars

\* The locator alone, on every /app directory: a run that skipped the import
\* is about to look the entry file up.
AppDirStates ==
    {d \in [AppNames -> {NoAppFile} \cup {AppFile(r, t) : r \in BOOLEAN,
                                            t \in {{}, {"FastAPI"}, {"from fastapi"}}}] :
        \A n \in PriorityNames : d[n] \in {NoAppFile, PlainFile, AppFile(TRUE, {"FastAPI"})}}

InitLocate ==
    /\ certsDir = NoDir
    /\ hashFile = File(NoCertsHash)
    /\ bundleFile = Missing
    /\ appDir \in AppDirStates
    /\ pc = [i \in Inst |-> IF i = 1 THEN "locate" ELSE "idle"]
    /\ path = [i \in Inst |-> IF i = 1 THEN "skip" ELSE "none"]
    /\ local = [i \in Inst |-> NoLocal]
    /\ app_file = [i \in Inst |-> None]
    /\ child = [i \in Inst |-> NoChild]
    /\ exit_code = [i \in Inst |-> -1]
    /\ log = [i \in Inst |-> NoLog]
    /\ hist = [i \in Inst |-> IF i = 1 THEN [NoHist EXCEPT !.had_hash = TRUE] ELSE NoHist]
    /\ prev = NoPrev
    /\ environ = [i \in Inst |-> ContainerEnv]
    /\ env = [i \in Inst |-> NoEnv]
    /\ listing = [i \in Inst |-> <<>>]
    /\ digest = [i \in Inst |-> NoDigest]

NextLocate == LocateApp(1)

SpecLocate == InitLocate /\ [][NextLocate]_vars

\* The full cycle twice in sequence, /certs left alone.
NextTwice == Step(1) \/ RestartOnce(1)

SpecTwice == Init /\ [][NextTwice]_vars

\* One call of calculate_certificates_hash(), glob enumerating the files in
\* any order.
ComputeDigest(i) ==
    /\ \E e \in GlobOrders(certsDir) :
          /\ listing' = [listing EXCEPT ![i] = e]
          /\ digest' = [digest EXCEPT ![i] = calculate_certificates_hash_of(certsDir, e)]
    /\ UNCHANGED <<fs, proc, prev, environ, env>>

\* The digest alone, on every /certs directory: two supervisors compute it,
\* each with the enumeration its glob gives.
NextDigest == ComputeDigest(1) \/ ComputeDigest(2)

SpecDigest == Init /\ [][NextDigest]_vars

\* A certificate file whose content cannot be read (open raises).
Unreadable == [present |-> TRUE, readable |-> FALSE, data |-> <<"c">>]

CertsDirStatesUnreadable ==
    {NoDir} \cup {[exists |-> TRUE, files |-> f] :
                     f \in [CertNames -> CertFileStates \cup {Unreadable}]}

InitUnreadable ==
    /\ certsDir \in CertsDirStatesUnreadable
    /\ hashFile = Missing
    /\ bundleFile = Missing
    /\ appDir \in AppDirChoices
    /\ environ = [i \in Inst |-> ContainerEnv]
    /\ InitProc

\* One supervisor, started again after each exit, /certs left alone and
\* some of its files unreadable.
NextUnreadable == Step(1) \/ Restart(1)

SpecUnreadable == InitUnreadable /\ [][NextUnreadable]_vars

\* One run of one supervisor, which is never kept from taking a step it
\* can take; the child ends when it likes, or never.
NextRun == Supervisor(1) \/ ChildTerminates(1)

SpecFair == Init /\ [][NextRun]_vars /\ WF_vars(Supervisor(1))

\* A new container whose /app holds main.py.
InitMain ==
    /\ Init
    /\ appDir = [EmptyAppDir EXCEPT !["main.py"] = PlainFile]

\* One supervisor up to its launch, the operator changing /certs at any
\* time, also in the middle of the run.
NextRace == Startup(1) \/ EditCerts

SpecRace == InitMain /\ [][NextRace]_vars

\* The full cycle twice in sequence, the operator changing /certs after the
\* first run has ended.
NextChange == Step(1) \/ RestartOnce(1) \/ (prev.ran /\ ChangeCerts)

SpecChange == InitMain /\ [][NextChange]_vars

\* Two supervisors started on the same /certs, digest record and bundle
\* path, their steps interleaved in any way up to the launch of their
\* children.
NextConcurrent == Startup(1) \/ Startup(2)

SpecConcurrent == InitMain /\ [][NextConcurrent]_vars

\* The launch alone, from every environment of the supervisor: a run that
\* skipped the import enters start_fastapi_application().
InitEnv ==
    /\ certsDir = NoDir
    /\ hashFile = File(NoCertsHash)
    /\ bundleFile = Missing
    /\ appDir \in AppDirChoices
    /\ pc = [i \in Inst |-> IF i = 1 THEN "locate" ELSE "idle"]
    /\ path = [i \in Inst |-> IF i = 1 THEN "skip" ELSE "none"]
    /\ local = [i \in Inst |-> NoLocal]
    /\ app_file = [i \in Inst |-> None]
    /\ child = [i \in Inst |-> NoChild]
    /\ exit_code = [i \in Inst |-> -1]
    /\ log = [i \in Inst |-> NoLog]
    /\ hist = [i \in Inst |-> IF i = 1 THEN [NoHist EXCEPT !.had_hash = TRUE] ELSE NoHist]
    /\ prev = NoPrev
    /\ environ \in [Inst -> EnvStates]
    /\ environ[2] = ContainerEnv
    /\ env = [i \in Inst |-> NoEnv]
    /\ listing = [i \in Inst |-> <<>>]
    /\ digest = [i \in Inst |-> NoDigest]

NextEnv == LocateApp(1) \/ Spawn(1)

SpecEnv == InitEnv /\ [][NextEnv]_vars

(***************************************************************************)
(* Properties.                                                             *)
(***************************************************************************)
\* The stages of a run after the import is over.
AfterImport == {"locate", "spawn", "wait"}

\* The status a supervisor that propagates its child's status ends with:
\* the child's exit code, or 128 + N for a child ended by signal N (the
\* only way a process that exits can pass on a death by signal).
PropagatedStatus(c) == IF c.state = "exited" THEN c.n ELSE 128 + c.n

\* C1: once the child has been spawned and has ended, the supervisor exits
\* with the child's status, whatever it is: 0, a non-zero code, or a death
\* by signal.
C1_ExitStatusPropagated ==
    \A i \in Inst :
        (pc[i] = "exited" /\ child[i] \in ChildOutcomes)
            => exit_code[i] = PropagatedStatus(child[i])

\* C1, the part the code keeps: the exit code of a child that exited is the
\* supervisor's exit code, and the handlers never turn it into 1.
C1_ExitCodePropagated ==
    \A i \in Inst :
        (pc[i] = "exited" /\ child[i] \in ChildOutcomes /\ child[i].state = "exited")
            => exit_code[i] = child[i].n

\* C2: whenever the child has been spawned, the bundle file its trust
\* variables point at exists and starts with the system trust anchors.
C2_BundleHasSystemAnchors ==
    \A i \in Inst :
        pc[i] = "wait"
            => /\ bundleFile.exists
               /\ Len(bundleFile.data) >= Len(SystemBundle)
               /\ SubSeq(bundleFile.data, 1, Len(SystemBundle)) = SystemBundle

\* The names of the certificate files that pass validation, ascending.
ValidNames(dir) == Sorted({n \in CertNames : dir.files[n].present
                                            /\ validate_certificate(dir.files[n])})

\* The bundle the specification describes for a directory: the system trust
\* anchors, then a newline and the content of each valid certificate.
RECURSIVE Concat(_)
Concat(ss) == IF ss = <<>> THEN <<>> ELSE Head(ss) \o Concat(Tail(ss))

ExpectedBundle(dir) ==
    SystemBundle
        \o Concat([k \in 1..Len(ValidNames(dir)) |->
                      Newline \o dir.files[ValidNames(dir)[k]].data])

ExpectedSummary(dir) ==
    LET files == {n \in CertNames : dir.files[n].present}
        valid == {n \in files : validate_certificate(dir.files[n])}
    IN  [successful_imports |-> Cardinality(valid),
         failed_imports |-> Cardinality(files \ valid),
         total_certificates |-> Cardinality(files)]

\* C3: for every certificate set, a rebuild that meets no input/output
\* failure leaves a bundle equal to the system trust anchors followed by a
\* newline and the content of each valid certificate in sorted order, and
\* logs a summary with the numbers of valid, malformed and all files.
C3_RebuildWritesBundle ==
    \A i \in Inst :
        (path[i] = "rebuild" /\ pc[i] \in AfterImport /\ ~hist[i].faulted)
            => /\ bundleFile = File(ExpectedBundle(certsDir))
               /\ log[i].summary = <<ExpectedSummary(certsDir)>>

\* C3, the part the code keeps: the same for every set with at least one
\* file, where the builder is called.
C3_RebuildWritesBundle_NonEmpty ==
    \A i \in Inst :
        (path[i] = "rebuild" /\ pc[i] \in AfterImport /\ ~hist[i].faulted
                /\ \E n \in CertNames : certsDir.files[n].present)
            => /\ bundleFile = File(ExpectedBundle(certsDir))
               /\ log[i].summary = <<ExpectedSummary(certsDir)>>

\* C4 as claimed: after any failure in the builder, the builder returns
\* (the exception never reaches run()), the bundle file is the system
\* trust-anchor content, and the run goes on.
C4_FallbackSafety_Original ==
    \A i \in Inst :
        hist[i].fallback # "none"
            => /\ pc[i] # "except"
               /\ pc[i] \in {"summary", "persist"} \cup AfterImport
                     => bundleFile = File(SystemBundle)

\* C4 as amended: after a failure in the builder the error is logged and
\* the system bundle is copied over the output.  When the copy completes,
\* the builder returns, the bundle file is the system trust-anchor content
\* exactly and the run goes on to the digest, the locator and the launch.
\* When the copy itself raises, the run ends with exit code 1, the digest
\* record not written and no child spawned.
C4_FallbackSafety ==
    \A i \in Inst :
        /\ pc[i] = "fallback" => hist[i].fallback = "none"
        /\ hist[i].fallback # "none" => log[i].error
        /\ hist[i].fallback = "copied"
              => /\ pc[i] \in {"summary", "persist", "exited"} \cup AfterImport
                 /\ pc[i] # "exited" => bundleFile = File(SystemBundle)
                 /\ pc[i] \in AfterImport \cup {"exited"}
                       => hist[i].hash_written \/ log[i].warn
                 /\ (pc[i] = "exited" /\ exit_code[i] # 1) => hist[i].spawned
        /\ hist[i].fallback = "failed"
              => /\ pc[i] \in {"except", "exited"}
                 /\ pc[i] = "exited" => exit_code[i] = 1
                 /\ ~hist[i].hash_written
                 /\ ~hist[i].spawned

\* C4 witness: a run whose build failed and fell back has launched its child.
C4_Witness ==
    /\ hist[1].fallback = "copied"
    /\ pc[1] = "wait"
    /\ bundleFile = File(SystemBundle)

\* C5: a run that found the digest unchanged goes straight to the locator
\* and, up to its exit, validates nothing, builds nothing and leaves the
\* bundle file and the digest record as they are.
C5_SkipLeavesFiles ==
    [][\A i \in Inst :
          /\ (path[i] # "skip" /\ path'[i] = "skip")
                => /\ pc'[i] = "locate"
                   /\ hashFile.exists
                   /\ hashFile.data = calculate_certificates_hash(certsDir)
          /\ path[i] = "skip"
                => /\ bundleFile' = bundleFile
                   /\ hashFile' = hashFile
                   /\ pc'[i] \in {"locate", "spawn", "wait", "exited", "idle"}
                   /\ pc'[i] # "idle"
                         => /\ hist'[i].validated = 0
                            /\ hist'[i].built = 0
                            /\ ~hist'[i].bundle_written
                            /\ ~hist'[i].hash_written]_vars

\* C5 witness: a run that skipped the import has launched its child.
C5_Witness ==
    /\ path[1] = "skip"
    /\ pc[1] = "wait"
    /\ bundleFile.exists

\* C6: a run writes the digest record only after a write of the bundle file
\* (by the builder or by its fallback copy) has returned in the same run.
C6_PersistAfterBundle ==
    \A i \in Inst : hist[i].hash_written => hist[i].bundle_written

\* C6, the part the code keeps: the same in the runs that call the builder.
C6_PersistAfterBundle_Built ==
    \A i \in Inst : (hist[i].hash_written /\ hist[i].built > 0) => hist[i].bundle_written

\* C7: starting with no digest record, two runs in sequence with no
\* certificate change and no input/output failure, each up to the launch:
\* the first validates and builds exactly once, the second skips, and the
\* bundle file is the same after both.
C7_Idempotence ==
    (/\ prev.ran /\ ~prev.had_hash /\ ~prev.faulted /\ prev.launched
     /\ pc[1] = "wait" /\ ~hist[1].faulted)
        => /\ prev.path = "rebuild"
           /\ prev.validated = 1
           /\ prev.built = 1
           /\ path[1] = "skip"
           /\ hist[1].validated = 0
           /\ hist[1].built = 0
           /\ bundleFile = prev.bundle

\* C7, the part the code keeps: the same when /certs holds a file.
C7_Idempotence_NonEmpty ==
    (/\ prev.ran /\ ~prev.had_hash /\ ~prev.faulted /\ prev.launched
     /\ pc[1] = "wait" /\ ~hist[1].faulted
     /\ \E n \in CertNames : certsDir.files[n].present)
        => /\ prev.path = "rebuild"
           /\ prev.validated = 1
           /\ prev.built = 1
           /\ path[1] = "skip"
           /\ hist[1].validated = 0
           /\ hist[1].built = 0
           /\ bundleFile = prev.bundle

\* Whether /app holds no entry file: none of the conventional names, and no
\* readable *.py file that names the framework.
NoEntryFile ==
    /\ \A n \in PriorityNames : ~appDir[n].present
    /\ \A n \in AppNames \cap PyNames :
          ~(appDir[n].present /\ appDir[n].readable /\ appDir[n].text \cap Markers # {})

\* C8: when /app holds no entry file, no child is ever spawned, and the run
\* ends with an error logged and exit code 1.
C8_LocatorFailureIsFatal ==
    \A i \in Inst :
        NoEntryFile
            => /\ child[i] = NoChild
               /\ ~hist[i].spawned
               /\ pc[i] \notin {"spawn", "wait"}
               /\ pc[i] = "exited" => (exit_code[i] = 1 /\ log[i].error /\ app_file[i] = None)

\* C8 witness: the locator found nothing in a run that got to it, and the
\* run has ended.
C8_Witness ==
    /\ NoEntryFile
    /\ pc[1] = "exited"
    /\ hist[1].hash_written
    /\ hist[1].fallback = "none"

\* The stages of a run before the child is spawned.
SetupStages ==
    {"check", "import", "build", "open", "write", "fallback", "summary", "persist",
     "locate", "spawn", "except"}

\* C9: a run that ends without a child having run to completion (the spawn
\* failed, the locator found nothing, or an exception left a setup stage)
\* ends with exit code 1 and an error logged, with no child to wait on; and
\* no setup stage can block: in each of them the run has a next step.
C9_FaultExitIsOne ==
    \A i \in Inst :
        /\ (pc[i] = "exited" /\ child[i] \notin ChildOutcomes)
              => /\ exit_code[i] = 1
                 /\ log[i].error
                 /\ child[i] = NoChild
        /\ pc[i] = "wait" => child[i] # NoChild
        /\ (pc[i] \in SetupStages /\ i = 1) => ENABLED Step(1)

\* C9 witness: the spawn failed and the run has ended.
C9_Witness ==
    /\ pc[1] = "exited"
    /\ app_file[1] # None
    /\ child[1] = NoChild
    /\ ~hist[1].spawned

\* C9 witness of the other fault: an exception left the import.
C9_WitnessExcept ==
    /\ pc[1] = "exited"
    /\ hist[1].fallback = "failed"

\* The files of /app whose content contains a marker phrase.
MarkerFiles == {n \in AppNames : appDir[n].present /\ appDir[n].text \cap Markers # {}}

\* The files among them that the scan can read: *.py and readable.
PyMarkerFiles == {n \in MarkerFiles : n \in PyNames /\ appDir[n].readable}

\* The first conventional name present in /app is possible_files[k].
FirstPresent(k) ==
    /\ appDir[possible_files[k]].present
    /\ \A h \in 1..(k - 1) : ~appDir[possible_files[h]].present

\* C10 as claimed: the locator returns the first conventional name that
\* exists; if none exists, the name of a file whose content contains the
\* marker; if there is no such file, nothing.
C10_LocatorPriority_Original ==
    pc[1] # "locate"
        => /\ \A k \in 1..Len(possible_files) :
                 FirstPresent(k) => app_file[1] = possible_files[k]
           /\ (\A n \in PriorityNames : ~appDir[n].present)
                 => IF MarkerFiles # {} THEN app_file[1] \in MarkerFiles
                    ELSE app_file[1] = None

\* C10 as amended: the same, where the files the scan considers are the
\* readable files named *.py.
C10_LocatorPriority ==
    pc[1] # "locate"
        => /\ \A k \in 1..Len(possible_files) :
                 FirstPresent(k) => app_file[1] = possible_files[k]
           /\ (\A n \in PriorityNames : ~appDir[n].present)
                 => IF PyMarkerFiles # {} THEN app_file[1] \in PyMarkerFiles
                    ELSE app_file[1] = None

\* C10 witness: a conventional file without the marker is returned although
\* an earlier name is absent and another file contains the marker.
C10_Witness ==
    /\ pc[1] = "spawn"
    /\ ~appDir["main.py"].present
    /\ appDir["app.py"] = PlainFile
    /\ "svc1.py" \in PyMarkerFiles
    /\ app_file[1] = "app.py"

\* The bytes of the files of a directory from name n on, in ascending order
\* of the names.
RECURSIVE FileBytesFrom(_, _)
FileBytesFrom(dir, n) ==
    IF n > MaxCerts THEN <<>>
    ELSE (IF dir.files[n].present THEN dir.files[n].data ELSE <<>>)
             \o FileBytesFrom(dir, n + 1)

\* C11: for a fixed set of certificate files the digest is the same for
\* every order in which the files are enumerated: it is the value the steps
\* of a run use, the hash of the files' bytes in ascending order of the
\* names.  For a directory that does
\* not exist it is the sentinel, which no existing directory gives.
C11_DigestDeterminism ==
    /\ \A i \in Inst :
           digest[i] # NoDigest
               => /\ digest[i] = calculate_certificates_hash(certsDir)
                  /\ certsDir.exists => digest[i] = Sha256(FileBytesFrom(certsDir, 1))
                  /\ ~certsDir.exists => digest[i] = <<"no-certs">>
                  /\ certsDir.exists => digest[i] # <<"no-certs">>
    /\ \A i, j \in Inst :
           (digest[i] # NoDigest /\ digest[j] # NoDigest) => digest[i] = digest[j]

\* Two files with different content, enumerated in the two orders.
C11_Witness ==
    /\ listing[1] = <<2, 1>>
    /\ listing[2] = <<1, 2>>
    /\ digest[1] # NoDigest
    /\ digest[2] # NoDigest
    /\ certsDir.files[1].data = <<"c">>
    /\ certsDir.files[2].data = <<"x">>

\* C12: unchanged() is true exactly when the digest record is there, could
\* be read, every certificate file could be read for the digest, and the
\* stored text equals the digest; with a record that is absent, a record
\* that cannot be read or a certificate that cannot be read the run
\* rebuilds.
C12_FailuresMeanChanged ==
    \A i \in Inst :
        (pc[i] = "import" \/ (pc[i] = "locate" /\ path[i] = "skip"))
            => (path[i] = "skip"
                    <=> /\ hashFile.exists
                        /\ ~hist[i].faulted
                        /\ \A n \in Glob(certsDir) : certsDir.files[n].readable
                        /\ Strip(hashFile.data) = calculate_certificates_hash(certsDir))

\* C12, the part the code keeps: with the record absent or not readable the
\* run rebuilds, and a run skips only on equal digests.
C12_RecordFailuresMeanChanged ==
    \A i \in Inst :
        (pc[i] = "import" \/ (pc[i] = "locate" /\ path[i] = "skip"))
            => (path[i] = "skip"
                    <=> /\ hashFile.exists
                        /\ ~hist[i].faulted
                        /\ Strip(hashFile.data) = calculate_certificates_hash(certsDir))

\* C13: the environment the child is started with is the supervisor's,
\* except that the three trust-bundle variables hold the bundle path and the
\* two flags are set; every other variable is passed on as it was, and no
\* step changes the supervisor's own environment.
C13_EnvironmentOverlay ==
    [][\A i \in Inst :
           /\ environ'[i] = environ[i]
           /\ (pc[i] = "spawn" /\ pc'[i] = "wait")
                  => \A n \in EnvNames :
                         env[i][n] = IF n \in {"SSL_CERT_FILE", "REQUESTS_CA_BUNDLE",
                                               "CURL_CA_BUNDLE"}
                                     THEN "/app/custom_ca_bundle.pem"
                                     ELSE IF n \in {"PYTHONUNBUFFERED",
                                                    "PYTHONDONTWRITEBYTECODE"}
                                     THEN "1"
                                     ELSE environ[i][n]]_vars

\* A child running, started by a supervisor whose environment named
\* another trust file, had no flag set and had PATH set.
C13_Witness ==
    /\ pc[1] = "wait"
    /\ child[1] = Running
    /\ environ[1]["SSL_CERT_FILE"] = "/etc/ssl/cert.pem"
    /\ environ[1]["PYTHONUNBUFFERED"] = Unset
    /\ environ[1]["PATH"] = "1"
    /\ env[1]["SSL_CERT_FILE"] = custom_ca_bundle
    /\ env[1]["PATH"] = "1"

\* C14: two supervisors on the same files are not synchronised: a
\* supervisor that has not launched yet can always take its next step,
\* whatever the other one is in the middle of, so the states in which one
\* has truncated the bundle and the other checks the digest or launches its
\* child are not excluded.
C14_Unsynchronised ==
    \A i \in Inst :
        pc[i] \in {"idle", "check", "import", "build", "open", "write", "fallback",
                   "summary", "persist", "locate", "spawn", "except"}
            => ENABLED Startup(i)

\* Supervisor 1 has truncated the bundle and not written it yet; supervisor
\* 2 has launched its child, whose trust variables point at the empty file.
C14_Witness ==
    /\ pc[1] = "write"
    /\ bundleFile = File(<<>>)
    /\ pc[2] = "wait"
    /\ child[2] = Running
    /\ ~hist[1].faulted
    /\ ~hist[2].faulted

\* Both supervisors have launched, no step failed in supervisor 1, and the
\* digest record is the digest of /certs while the bundle is not the bundle
\* of /certs.
C14_WitnessRecord ==
    /\ pc[1] = "wait"
    /\ pc[2] \in {"wait", "exited"}
    /\ ~hist[1].faulted
    /\ hashFile = File(calculate_certificates_hash(certsDir))
    /\ bundleFile # File(ExpectedBundle(certsDir))
    /\ hist[1].bundle_written

\* The place of each position of run() in the order of the stages:
\* CHECK_DIGEST, VALIDATE, BUILD (five positions), PERSIST, LOCATE_APP,
\* LAUNCH, WAIT_CHILD, the fault handler, EXIT.
StageRank(p) ==
    CASE p = "idle" -> 0
      [] p = "check" -> 1
      [] p = "import" -> 2
      [] p = "build" -> 3
      [] p = "open" -> 4
      [] p = "write" -> 5
      [] p = "fallback" -> 6
      [] p = "summary" -> 7
      [] p = "persist" -> 8
      [] p = "locate" -> 9
      [] p = "spawn" -> 10
      [] p = "wait" -> 11
      [] p = "except" -> 12
      [] p = "exited" -> 13

C16_WaitEndsWithChild ==
    /\ [](pc[1] = "exited" => child[1] # Running)
    /\ (child[1] \in ChildOutcomes) ~> (pc[1] = "exited")
    /\ (pc[1] # "wait") ~> (pc[1] \in {"wait", "exited"})

\* The child has ended and the supervisor has exited after it.
C16_Witness ==
    /\ pc[1] = "exited"
    /\ hist[1].spawned
    /\ child[1] \in ChildOutcomes
    /\ exit_code[1] # -1

\* C17: whenever a run skips the rebuild, the bundle file exists and is the
\* bundle a rebuild would write now: the system anchors and every valid
\* certificate now in /certs, in sorted order.
C17_SkipIsSound ==
    \A i \in Inst :
        path[i] = "skip" => bundleFile = File(ExpectedBundle(certsDir))

\* C18: after a rebuild in which nothing failed, the digest record is the
\* digest of the directory as the builder read it.
C18_DigestDescribesBundle ==
    \A i \in Inst :
        (/\ pc[i] = "locate"
         /\ path[i] = "rebuild"
         /\ hist[i].built = 1
         /\ hist[i].fallback = "none"
         /\ ~hist[i].faulted)
            => hashFile = File(Sha256(FileBytesFrom(hist[i].built_from, 1)))

\* C19: a run skips only when the bundle of the directory as it is now is
\* the bundle of the directory whose digest the run before persisted.
C19_DigestSeparates ==
    (/\ prev.ran
     /\ prev.path = "rebuild"
     /\ ~prev.faulted
     /\ path[1] = "skip")
        => ExpectedBundle(certsDir) = ExpectedBundle(prev.certs)
====
